---- MODULE Spec2Model ----
(***************************************************************************)
(* The exam domain model (Question, Exam, ExamResult) and the ExamService  *)
(* orchestrator of the AI test-bank exam generator.                        *)
(*                                                                         *)
(* Objects are kept in a heap: `exams` is the sequence of the Exam objects *)
(* that are still referenced, and a reference is an index into it (0 is    *)
(* null).  An optional value (a field that may be undefined) is a sequence *)
(* of length at most one: <<>> is undefined, <<v>> is the value v.         *)
(*                                                                         *)
(* Spec is the ExamService with each create call run to completion;        *)
(* SpecAsync is the same service with the create calls suspended at their  *)
(* await; SpecExam is one Exam restored by Exam.fromJSON and the calls     *)
(* made on it; SpecResult is ExamResult constructed from an Exam handed to *)
(* it; SpecAdapter is GeminiAIService on what its provider answers;        *)
(* SpecStorage is the ExamService together with its localStorage slot;     *)
(* SpecJSON is an Exam a caller constructed, with its serialized form;     *)
(* SpecArray is that Exam with the arrays of questions its caller holds;    *)
(* SpecTime is the service with the calls that read the exam's clock;      *)
(* SpecSession is the service with its storage and progress calls and no   *)
(* clock; SpecApp is the App component with the views it renders.          *)
(***************************************************************************)
EXTENDS Integers, Sequences, FiniteSets, TLC

\* ---------------------------------------------------------------- bounds
MaxQuestions == 2   \* questions the adapter returns for one exam
MaxTicks == 1       \* clock ticks of one behaviour
MaxPending == 2     \* create calls in flight at one time
MaxGraded == 10     \* questions of an exam handed to ExamResult
TickMs == 1500      \* milliseconds one clock tick advances the clock

VARIABLES
    exams,        \* heap of Exam objects
    currentExam,  \* ExamService.currentExam: a reference, 0 is null
    pending,      \* create calls suspended at their await
    now,          \* the wall clock, milliseconds
    storage,      \* localStorage's 'currentExam' slot: <<>> when empty
    app,          \* the App component's state: its view and the Exam it holds
    last          \* the outcome of the last completed call

vars == <<exams, currentExam, pending, now, storage, app, last>>

Undefined == <<>>
Some(v) == <<v>>
Null == 0

\* ------------------------------------------------------------ Question.ts
NewQuestion(id, text, options, correctIndex, difficulty) ==
    [id |-> id, text |-> text, options |-> options,
     correctIndex |-> correctIndex, difficulty |-> difficulty,
     userAnswer |-> Undefined]

\* The outcome of a call that may throw: err is "" when it returned.
Returned(v) == [err |-> "", val |-> v]
Thrown(msg, v) == [err |-> msg, val |-> v]

setUserAnswer_InclusiveUpper(q, answerIndex) ==
    IF answerIndex >= 0 /\ answerIndex <= Len(q.options)
    THEN Returned([q EXCEPT !.userAnswer = Some(answerIndex)])
    ELSE Thrown("Invalid answer index", q)

setUserAnswer_KeepFirst(q, answerIndex) ==
    IF answerIndex >= 0 /\ answerIndex < Len(q.options)
    THEN Returned(IF q.userAnswer = Undefined
                  THEN [q EXCEPT !.userAnswer = Some(answerIndex)] ELSE q)
    ELSE Thrown("Invalid answer index", q)

setUserAnswer_ClearOnInvalid(q, answerIndex) ==
    IF answerIndex >= 0 /\ answerIndex < Len(q.options)
    THEN Returned([q EXCEPT !.userAnswer = Some(answerIndex)])
    ELSE Thrown("Invalid answer index", [q EXCEPT !.userAnswer = Undefined])

\* Question.setUserAnswer: val is the question after the call.
setUserAnswer(q, answerIndex) ==
    IF answerIndex >= 0 /\ answerIndex < Len(q.options)
    THEN Returned([q EXCEPT !.userAnswer = Some(answerIndex)])
    ELSE Thrown("Invalid answer index", q)

isAnswered(q) == q.userAnswer # Undefined

isCorrect(q) == q.userAnswer = Some(q.correctIndex)

\* A parsed JSON object is a record whose optional keys hold <<>> when absent.
QuestionFromJSON_Unchecked(data) ==
    Returned([NewQuestion(data.id, data.text, data.options, data.correctIndex,
                          data.difficulty) EXCEPT !.userAnswer = data.userAnswer])

QuestionFromJSON_DropInvalid(data) ==
    LET question == NewQuestion(data.id, data.text, data.options, data.correctIndex,
                                data.difficulty)
        r == IF data.userAnswer # Undefined
             THEN setUserAnswer(question, data.userAnswer[1])
             ELSE Returned(question)
    IN Returned(r.val)

\* Question.fromJSON: val is the Question built.
QuestionFromJSON(data) ==
    LET question == NewQuestion(data.id, data.text, data.options, data.correctIndex,
                                data.difficulty)
    IN IF data.userAnswer # Undefined
       THEN setUserAnswer(question, data.userAnswer[1])
       ELSE Returned(question)

\* ------------------------------------------------------------------ Exam
NewExam(title, questions, timeLimit) ==
    [title |-> title, questions |-> questions, timeLimit |-> timeLimit,
     startTime |-> Undefined, endTime |-> Undefined]

totalQuestions(e) == Len(e.questions)

start(e, t) == [e EXCEPT !.startTime = Some(t)]

end(e, t) == [e EXCEPT !.endTime = Some(t)]

isStarted(e) == e.startTime # Undefined

isEnded(e) == e.endTime # Undefined

\* Array.prototype.find: the index of the first question with that id, 0 if none.
FindQuestion(e, questionId) ==
    IF \E k \in 1..Len(e.questions) : e.questions[k].id = questionId
    THEN CHOOSE k \in 1..Len(e.questions) :
            /\ e.questions[k].id = questionId
            /\ \A j \in 1..(k - 1) : e.questions[j].id # questionId
    ELSE 0

\* `Question with id ${questionId} not found`
QuestionNotFound(questionId) == "Question with id " \o ToString(questionId) \o " not found"

answerQuestion_SkipMissing(e, questionId, answerIndex) ==
    LET k == FindQuestion(e, questionId) IN
    IF k = 0 THEN Returned(e)
    ELSE LET r == setUserAnswer(e.questions[k], answerIndex) IN
         [err |-> r.err, val |-> [e EXCEPT !.questions[k] = r.val]]

\* Exam.answerQuestion: val is the exam after the call.
answerQuestion(e, questionId, answerIndex) ==
    LET k == FindQuestion(e, questionId) IN
    IF k = 0 THEN Thrown(QuestionNotFound(questionId), e)
    ELSE LET r == setUserAnswer(e.questions[k], answerIndex) IN
         [err |-> r.err, val |-> [e EXCEPT !.questions[k] = r.val]]

RECURSIVE CountIf(_, _)
\* Array.prototype.filter(...).length over the question sequence.
CountIf(qs, answeredOnly) ==
    IF qs = <<>> THEN 0
    ELSE (IF (IF answeredOnly THEN isAnswered(Head(qs)) ELSE isCorrect(Head(qs)))
          THEN 1 ELSE 0) + CountIf(Tail(qs), answeredOnly)

getAnsweredCount_Correct(e) == CountIf(e.questions, FALSE)

getAnsweredCount(e) == CountIf(e.questions, TRUE)

\* A double that came out of a division, kept as the exact fraction num/den;
\* the fraction 0/0 is NaN.
Fraction(num, den) == [num |-> num, den |-> den]

\* (this.getAnsweredCount() / this.totalQuestions) * 100
getProgressPercentage(e) == Fraction(getAnsweredCount(e) * 100, totalQuestions(e))

canSubmit_AnyAnswered(e) == getAnsweredCount(e) >= 1 \/ totalQuestions(e) = 0

canSubmit(e) == getAnsweredCount(e) = totalQuestions(e)

getElapsedTime_Rounded(e, t) ==
    IF ~isStarted(e) THEN 0
    ELSE LET endTime == IF isEnded(e) THEN e.endTime[1] ELSE t
         IN (endTime - e.startTime[1] + 500) \div 1000

\* Math.floor((endTime - startTime) / 1000), endTime defaulting to the clock.
getElapsedTime(e, t) ==
    IF ~isStarted(e) THEN 0
    ELSE LET endTime == IF isEnded(e) THEN e.endTime[1] ELSE t
         IN (endTime - e.startTime[1]) \div 1000

\* The instants the clock can show, milliseconds since the epoch.
ClockValues == { k * TickMs : k \in 0..MaxTicks }

Pad(n, width) ==
    LET d == ToString(n)
    IN IF Len(d) >= width THEN d
       ELSE IF Len(d) = width - 1 THEN "0" \o d
       ELSE "00" \o d

\* Date.prototype.toISOString, for an instant of the epoch's first minute.
toISOString(ms) ==
    "1970-01-01T00:00:" \o Pad(ms \div 1000, 2) \o "." \o Pad(ms % 1000, 3) \o "Z"

InvalidDate == 0 - 1

\* new Date(iso).getTime(); a string that is no date gives an invalid Date.
DateFromISO(iso) ==
    IF \E t \in ClockValues : toISOString(t) = iso
    THEN CHOOSE t \in ClockValues : toISOString(t) = iso
    ELSE InvalidDate

RECURSIVE MapFromJSON(_)
\* data.questions.map(q => Question.fromJSON(q)): the first throw ends the map.
MapFromJSON(items) ==
    IF items = <<>> THEN Returned(<<>>)
    ELSE LET h == QuestionFromJSON(Head(items)) IN
         IF h.err # "" THEN Thrown(h.err, <<>>)
         ELSE LET t == MapFromJSON(Tail(items)) IN
              IF t.err # "" THEN t ELSE Returned(<<h.val>> \o t.val)

Truthy(field) == field # Undefined /\ field # Some("")

ExamFromJSON_NoEndTime(data) ==
    LET questions == MapFromJSON(data.questions) IN
    IF questions.err # "" THEN Thrown(questions.err, Undefined)
    ELSE LET exam == NewExam(data.title, questions.val, data.timeLimit)
         IN Returned([exam EXCEPT
                !.startTime = IF Truthy(data.startTime)
                              THEN Some(DateFromISO(data.startTime[1])) ELSE @])

\* Exam.fromJSON: val is the Exam built.
ExamFromJSON(data) ==
    LET questions == MapFromJSON(data.questions) IN
    IF questions.err # "" THEN Thrown(questions.err, Undefined)
    ELSE LET exam == NewExam(data.title, questions.val, data.timeLimit)
         IN Returned([exam EXCEPT
                !.startTime = IF Truthy(data.startTime)
                              THEN Some(DateFromISO(data.startTime[1])) ELSE @,
                !.endTime = IF Truthy(data.endTime)
                            THEN Some(DateFromISO(data.endTime[1])) ELSE @])

\* ------------------------------------------------------------ ExamResult
\* (correctCount / totalQuestions) * 100 as the exact fraction num/den; the
\* fraction 0/0 is NaN.
Percentage(correctCount, total) == [num |-> correctCount * 100, den |-> total]

\* this._percentage >= cutoff; every comparison with NaN is false.
PercentageAtLeast(p, cutoff) == p.den # 0 /\ p.num >= cutoff * p.den

calculateCorrectCount_Answered(e) == CountIf(e.questions, TRUE)

calculateCorrectCount(e) == CountIf(e.questions, FALSE)

calculateGrade_StrictCutoffs(p) ==
    IF p.den # 0 /\ p.num > 90 * p.den THEN "A"
    ELSE IF p.den # 0 /\ p.num > 80 * p.den THEN "B"
    ELSE IF p.den # 0 /\ p.num > 70 * p.den THEN "C"
    ELSE IF p.den # 0 /\ p.num > 60 * p.den THEN "D"
    ELSE "F"

calculateGrade(p) ==
    IF PercentageAtLeast(p, 90) THEN "A"
    ELSE IF PercentageAtLeast(p, 80) THEN "B"
    ELSE IF PercentageAtLeast(p, 70) THEN "C"
    ELSE IF PercentageAtLeast(p, 60) THEN "D"
    ELSE "F"

NewExamResult_AnsweredOnly(ref, e, t) ==
    LET correctCount == calculateCorrectCount(e)
        percentage == Percentage(correctCount, totalQuestions(e))
    IN [exam |-> ref,
        correctCount |-> correctCount,
        incorrectCount |-> getAnsweredCount(e) - correctCount,
        score |-> correctCount,
        percentage |-> percentage,
        grade |-> calculateGrade(percentage),
        completionTime |-> getElapsedTime(e, t)]

\* new ExamResult(exam): ref is the reference to exam, e the object, t the clock.
NewExamResult(ref, e, t) ==
    LET correctCount == calculateCorrectCount(e)
        percentage == Percentage(correctCount, totalQuestions(e))
    IN [exam |-> ref,
        correctCount |-> correctCount,
        incorrectCount |-> totalQuestions(e) - correctCount,
        score |-> correctCount,
        percentage |-> percentage,
        grade |-> calculateGrade(percentage),
        completionTime |-> getElapsedTime(e, t)]

\* ExamResult.getIncorrectQuestions / getCorrectQuestions, read from the Exam
\* the result refers to as it is when they are called.
getIncorrectQuestions(e) == SelectSeq(e.questions, LAMBDA q : ~isCorrect(q))

getCorrectQuestions(e) == SelectSeq(e.questions, isCorrect)

\* ----------------------------------------------------- the adapter's answers
\* The questions tried, by option list and correct option.  What is stored or
\* handed back is untrusted: the last shape names a correct option its option
\* list does not have.
AdapterShapes ==
    { [options |-> <<"A) a", "B) b">>, correctIndex |-> 1] }

QuestionShapes ==
    AdapterShapes \cup { [options |-> <<"A) a">>, correctIndex |-> 1] }

\* parseQuestionsFromResponse numbers the questions 1, 2, ... in array order
\* and leaves the difficulty unset.
ListsOf(shapes) ==
    UNION { { [k \in 1..n |-> NewQuestion(k, "Q", f[k].options, f[k].correctIndex,
                                          Undefined)] :
              f \in [1..n -> shapes] } : n \in 0..MaxQuestions }

QuestionLists == ListsOf(AdapterShapes)

AdapterErrors ==
    { "API Rate Limit Exceeded", "Failed to analyze document" }

AdapterOutcomes ==
    { Thrown(m, <<>>) : m \in AdapterErrors } \cup { Returned(qs) : qs \in QuestionLists }

\* The answer indices tried: every valid index of the longest option list, and
\* one index beyond each end.
AnswerIndices ==
    (0 - 1)..(CHOOSE n \in { Len(s.options) : s \in QuestionShapes } :
                \A s \in QuestionShapes : Len(s.options) <= n)

QuestionIds == 1..(MaxQuestions + 1)

\* ------------------------------------------------------------ the heap
NoResult == <<>>

\* What the last call was (for a create call that stands at its await, that it
\* was invoked), the arguments that decided it, the error it threw
\* ("" when it returned), the Exam it returned or was made on, and the
\* ExamResult (for an adapter call the questions, for a call on an Exam the
\* object or value) it returned.
Outcome(op, arg, err, exam, result) ==
    [op |-> op, arg |-> arg, err |-> err, exam |-> exam, result |-> result]

\* The references the program still holds into the heap exs.
Live(exs, cur, lst) ==
    { i \in 1..Len(exs) :
        \/ i = cur
        \/ i = lst.exam
        \/ (lst.result # NoResult /\ lst.result[1].exam = i) }

\* An Exam object nothing refers to is garbage: it is dropped from the heap and
\* the references to the others are renumbered.
CommitApp(exs, cur, lst, ap) ==
    LET live == Live(exs, cur, lst) \cup ({ap.exam} \cap (1..Len(exs)))
        rank(i) == Cardinality({ j \in live : j <= i })
        ren(i) == IF i \in live THEN rank(i) ELSE Null
    IN /\ exams' = [k \in 1..Cardinality(live) |->
                       exs[CHOOSE i \in live : rank(i) = k]]
       /\ currentExam' = ren(cur)
       /\ last' = [lst EXCEPT
                     !.exam = ren(@),
                     !.result = IF @ = NoResult THEN @
                                ELSE Some([@[1] EXCEPT !.exam = ren(@)])]
       /\ app' = [ap EXCEPT !.exam = ren(@)]

\* A call that leaves the App component's state alone.
Commit(exs, cur, lst) == CommitApp(exs, cur, lst, app)

\* const [view, setView] = useState('upload'); const [currentExam,
\* setCurrentExam] = useState(null) in App.
InitialApp == [view |-> "upload", exam |-> Null]

\* ------------------------------------------------------------ ExamService
Init ==
    /\ exams = <<>>
    /\ currentExam = Null
    /\ pending = <<>>
    /\ now = 0
    /\ storage = Undefined
    /\ app = InitialApp
    /\ last = Outcome("new ExamService", <<>>, "", Null, NoResult)

Remove(s, i) == SubSeq(s, 1, i - 1) \o SubSeq(s, i + 1, Len(s))

\* createExamFromFile(file, title = 'AI Generated Exam') as it stands at its await.
FileCall(title) ==
    [op |-> "createExamFromFile",
     title |-> IF title = Undefined THEN "AI Generated Exam" ELSE title[1],
     empty |-> "No questions found in the document"]

\* createExamFromTopic(topic, count, difficulty, title) as it stands at its
\* await; the exam's title is title || `${topic} - Exam`.
TopicCall(topic, title) ==
    [op |-> "createExamFromTopic",
     title |-> IF title # Undefined /\ title # Some("") THEN title[1]
               ELSE topic \o " - Exam",
     empty |-> "Failed to generate questions"]

FileTitles == { Undefined }

Topics == { "AI Generated" }

TopicTitles == { Undefined }

createExam_NoStart(call, out, exs, cur, t) ==
    IF out.err # "" THEN [exams |-> exs, cur |-> cur, err |-> out.err, ret |-> Null]
    ELSE IF Len(out.val) = 0
    THEN [exams |-> exs, cur |-> cur, err |-> call.empty, ret |-> Null]
    ELSE LET exam == NewExam(call.title, out.val, Undefined)
         IN [exams |-> Append(exs, exam), cur |-> Len(exs) + 1, err |-> "",
             ret |-> Len(exs) + 1]

createExam_ClearOnFailure(call, out, exs, cur, t) ==
    IF out.err # "" THEN [exams |-> exs, cur |-> Null, err |-> out.err, ret |-> Null]
    ELSE IF Len(out.val) = 0
    THEN [exams |-> exs, cur |-> Null, err |-> call.empty, ret |-> Null]
    ELSE LET exam == start(NewExam(call.title, out.val, Undefined), t)
         IN [exams |-> Append(exs, exam), cur |-> Len(exs) + 1, err |-> "",
             ret |-> Len(exs) + 1]

\* The rest of createExamFromFile / createExamFromTopic once the adapter call
\* has settled with out: the heap, the current exam, the error thrown and the
\* exam returned.
createExam(call, out, exs, cur, t) ==
    IF out.err # "" THEN [exams |-> exs, cur |-> cur, err |-> out.err, ret |-> Null]
    ELSE IF Len(out.val) = 0
    THEN [exams |-> exs, cur |-> cur, err |-> call.empty, ret |-> Null]
    ELSE LET exam == start(NewExam(call.title, out.val, Undefined), t)
         IN [exams |-> Append(exs, exam), cur |-> Len(exs) + 1, err |-> "",
             ret |-> Len(exs) + 1]

\* A create call run without interruption: the adapter settles with out before
\* anything else happens.
CreateExam(call, out) ==
    /\ LET r == createExam(call, out, exams, currentExam, now)
       IN Commit(r.exams, r.cur, Outcome(call.op, <<out>>, r.err, r.ret, NoResult))
    /\ UNCHANGED <<pending, now, storage>>

CreateExamFromFile ==
    \E title \in FileTitles, out \in AdapterOutcomes : CreateExam(FileCall(title), out)

CreateExamFromTopic ==
    \E topic \in Topics, title \in TopicTitles, out \in AdapterOutcomes :
        CreateExam(TopicCall(topic, title), out)

\* The same calls with their suspension at the await made visible: the call is
\* in flight until the adapter settles, and other calls run meanwhile.  The
\* calls in flight stand in pending in the order they were invoked; the
\* outcome of a call that resumes tells which of them it was.
CreateExamInvoke(call) ==
    /\ Len(pending) < MaxPending
    /\ pending' = Append(pending, call)
    /\ Commit(exams, currentExam, Outcome(call.op \o ": await", <<>>, "", Null, NoResult))
    /\ UNCHANGED <<now, storage>>

CreateExamResume(i, out) ==
    /\ i \in 1..Len(pending)
    /\ LET r == createExam(pending[i], out, exams, currentExam, now)
       IN Commit(r.exams, r.cur,
                 Outcome(pending[i].op, <<out, i>>, r.err, r.ret, NoResult))
    /\ pending' = Remove(pending, i)
    /\ UNCHANGED <<now, storage>>

startExam(exs, cur, t) ==
    IF cur = Null THEN [exams |-> exs, err |-> "No exam loaded"]
    ELSE [exams |-> [exs EXCEPT ![cur] = start(@, t)], err |-> ""]

StartExam ==
    /\ LET r == startExam(exams, currentExam, now)
       IN Commit(r.exams, currentExam, Outcome("startExam", <<>>, r.err, Null, NoResult))
    /\ UNCHANGED <<pending, now, storage>>

submitAnswer_NoExamCheck(exs, cur, questionId, answerIndex) ==
    IF cur = Null THEN [exams |-> exs, err |-> ""]
    ELSE LET r == answerQuestion(exs[cur], questionId, answerIndex)
         IN [exams |-> [exs EXCEPT ![cur] = r.val], err |-> r.err]

submitAnswer(exs, cur, questionId, answerIndex) ==
    IF cur = Null THEN [exams |-> exs, err |-> "No exam in progress"]
    ELSE LET r == answerQuestion(exs[cur], questionId, answerIndex)
         IN [exams |-> [exs EXCEPT ![cur] = r.val], err |-> r.err]

SubmitAnswer(questionId, answerIndex) ==
    /\ LET r == submitAnswer(exams, currentExam, questionId, answerIndex)
       IN Commit(r.exams, currentExam, Outcome("submitAnswer", <<questionId, answerIndex>>, r.err, Null,
                         NoResult))
    /\ UNCHANGED <<pending, now, storage>>

completeExam_EndFirst(exs, cur, t) ==
    IF cur = Null THEN [exams |-> exs, err |-> "No exam to complete", result |-> NoResult]
    ELSE LET ended == [exs EXCEPT ![cur] = end(@, t)] IN
         IF ~canSubmit(exs[cur])
         THEN [exams |-> ended, err |-> "Not all questions have been answered",
               result |-> NoResult]
         ELSE [exams |-> ended, err |-> "",
               result |-> Some(NewExamResult(cur, ended[cur], t))]

completeExam(exs, cur, t) ==
    IF cur = Null THEN [exams |-> exs, err |-> "No exam to complete", result |-> NoResult]
    ELSE IF ~canSubmit(exs[cur])
    THEN [exams |-> exs, err |-> "Not all questions have been answered",
          result |-> NoResult]
    ELSE LET ended == [exs EXCEPT ![cur] = end(@, t)]
         IN [exams |-> ended, err |-> "",
             result |-> Some(NewExamResult(cur, ended[cur], t))]

CompleteExam ==
    /\ LET r == completeExam(exams, currentExam, now)
       IN Commit(r.exams, currentExam, Outcome("completeExam", <<>>, r.err, Null, r.result))
    /\ UNCHANGED <<pending, now, storage>>

ResetExam_ClearsStorage ==
    /\ Commit(exams, Null, Outcome("resetExam", <<>>, "", Null, NoResult))
    /\ storage' = Undefined
    /\ UNCHANGED <<pending, now>>

ResetExam ==
    /\ Commit(exams, Null, Outcome("resetExam", <<>>, "", Null, NoResult))
    /\ UNCHANGED <<pending, now, storage>>

\* ------------- calls the views make on an Exam object they hold (App, Exam.tsx)
ExamStart(e) ==
    /\ e \in 1..Len(exams)
    /\ Commit([exams EXCEPT ![e] = start(@, now)], currentExam,
              Outcome("Exam.start", <<>>, "", e, NoResult))
    /\ UNCHANGED <<pending, now, storage>>

ExamEnd(e) ==
    /\ e \in 1..Len(exams)
    /\ Commit([exams EXCEPT ![e] = end(@, now)], currentExam,
              Outcome("Exam.end", <<>>, "", e, NoResult))
    /\ UNCHANGED <<pending, now, storage>>

ExamAnswerQuestion(e, questionId, answerIndex) ==
    /\ e \in 1..Len(exams)
    /\ LET r == answerQuestion(exams[e], questionId, answerIndex)
       IN Commit([exams EXCEPT ![e] = r.val], currentExam,
                 Outcome("Exam.answerQuestion", <<questionId, answerIndex>>, r.err, e,
                         NoResult))
    /\ UNCHANGED <<pending, now, storage>>

\* ------------------------------------------- an Exam restored from stored data
\* The stored records tried: every question list the adapter can produce, each
\* question with no stored answer or with any of the answer indices.
StoredQuestionLists ==
    UNION { { [k \in 1..Len(qs) |-> [qs[k] EXCEPT !.userAnswer = ua[k]]] :
              ua \in [1..Len(qs) -> { Undefined } \cup { Some(i) : i \in AnswerIndices }] } :
            qs \in ListsOf(QuestionShapes) }

StoredExams ==
    { [title |-> "AI Generated Exam", questions |-> qs, timeLimit |-> Undefined,
       startTime |-> Undefined, endTime |-> Undefined] : qs \in StoredQuestionLists }

\* Exam.fromJSON(data), the Exam object under study: the caller keeps the Exam
\* it returns.
RestoreExam(data) ==
    /\ exams = <<>>
    /\ LET r == ExamFromJSON(data)
       IN IF r.err # ""
          THEN Commit(exams, currentExam,
                      Outcome("Exam.fromJSON", <<>>, r.err, Null, NoResult))
          ELSE Commit(Append(exams, r.val), currentExam,
                      Outcome("Exam.fromJSON", <<>>, "", Len(exams) + 1, NoResult))
    /\ UNCHANGED <<pending, now, storage>>

\* new Date() never goes back.
Tick ==
    /\ now < MaxTicks * TickMs
    /\ now' = now + TickMs
    /\ UNCHANGED <<exams, currentExam, pending, storage, app, last>>

Next ==
    \/ CreateExamFromFile
    \/ CreateExamFromTopic
    \/ StartExam
    \/ \E questionId \in QuestionIds, answerIndex \in AnswerIndices :
         SubmitAnswer(questionId, answerIndex)
    \/ CompleteExam
    \/ ResetExam
    \/ \E e \in 1..Len(exams) : ExamEnd(e)
    \/ Tick

Spec == Init /\ [][Next]_vars

\* The service with its create calls suspended at their await while other calls
\* run.
NextAsync ==
    \/ \E title \in FileTitles : CreateExamInvoke(FileCall(title))
    \/ \E topic \in Topics, title \in TopicTitles : CreateExamInvoke(TopicCall(topic, title))
    \/ \E i \in 1..Len(pending), out \in AdapterOutcomes : CreateExamResume(i, out)
    \/ \E questionId \in QuestionIds, answerIndex \in AnswerIndices :
         SubmitAnswer(questionId, answerIndex)
    \/ CompleteExam
    \/ ResetExam
    \/ Tick

SpecAsync == Init /\ [][NextAsync]_vars

\* The Exam class on its own: one Exam restored from stored data and the calls
\* made on it.
NextExam ==
    \/ \E data \in StoredExams : RestoreExam(data)
    \/ \E e \in 1..Len(exams) : ExamStart(e)
    \/ \E e \in 1..Len(exams) : ExamEnd(e)
    \/ \E e \in 1..Len(exams), questionId \in QuestionIds, answerIndex \in AnswerIndices :
         ExamAnswerQuestion(e, questionId, answerIndex)
    \/ Tick

SpecExam == Init /\ [][NextExam]_vars

\* ------------------------------------------- ExamResult on an Exam handed to it
\* Question k of an exam whose first c questions were answered with the correct
\* option, the next w with a wrong one, and the rest not at all.
GradedQuestion(k, c, w) ==
    [NewQuestion(k, "Q", <<"A) a", "B) b">>, 1, Undefined) EXCEPT
        !.userAnswer = IF k <= c THEN Some(1)
                       ELSE IF k <= c + w THEN Some(0)
                       ELSE Undefined]

\* The exams the Results view is handed: started, fully or partly answered.
GradedExams ==
    { start(NewExam("AI Generated Exam",
                    [k \in 1..t[1] |-> GradedQuestion(k, t[2], t[3])], Undefined), 0) :
        t \in { u \in (0..MaxGraded) \X (0..MaxGraded) \X (0..MaxGraded) :
                  u[2] + u[3] <= u[1] } }

InitResult ==
    /\ exams \in { <<e>> : e \in GradedExams }
    /\ currentExam = Null
    /\ pending = <<>>
    /\ now = 0
    /\ storage = Undefined
    /\ app = InitialApp
    /\ last = Outcome("new Exam", <<>>, "", 1, NoResult)

\* const result = new ExamResult(exam) in the Results view.
ConstructExamResult(e) ==
    /\ e \in 1..Len(exams)
    /\ Commit(exams, currentExam,
              Outcome("new ExamResult", <<>>, "", e,
                      Some(NewExamResult(e, exams[e], now))))
    /\ UNCHANGED <<pending, now, storage>>

NextResult ==
    \/ \E e \in 1..Len(exams) : ConstructExamResult(e)
    \/ \E e \in 1..Len(exams) : ExamEnd(e)
    \/ Tick

SpecResult == InitResult /\ [][NextResult]_vars

\* -------------------------------------------------------- GeminiAIService
\* The text of a response is kept as the sequence of its lexical pieces: a
\* piece is a run of characters, or the text of one JSON object together with
\* the object it denotes.
Tok(s) == [tok |-> s]

Obj(item) == [tok |-> "{", value |-> item]

IsSpace(t) == t.tok \in {" ", "\n"}

IsObj(t) == t.tok = "{"

\* The texts of JSON values that are neither arrays nor objects.
IsScalar(t) == t.tok \in {"null", "42"}

RECURSIVE trimStart(_)
trimStart(text) ==
    IF text # <<>> /\ IsSpace(Head(text)) THEN trimStart(Tail(text)) ELSE text

RECURSIVE trimEnd(_)
trimEnd(text) ==
    IF text # <<>> /\ IsSpace(text[Len(text)])
    THEN trimEnd(SubSeq(text, 1, Len(text) - 1)) ELSE text

\* String.prototype.trim
trim(text) == trimEnd(trimStart(text))

\* The mark that opens and closes markdown code fencing (three backquotes,
\* written here with quotes), bare and with its json tag.
FenceMark == "'''"

JSONFenceMark == FenceMark \o "json"

startsWith(text, mark) == text # <<>> /\ Head(text).tok = mark

RECURSIVE RemoveFence(_, _)
\* The two replace calls that clean the text of code fencing: every fence mark
\* goes, with the newline that follows it.
RemoveFence(text, mark) ==
    IF text = <<>> THEN <<>>
    ELSE IF Head(text).tok = mark
    THEN IF Len(text) >= 2 /\ text[2].tok = "\n"
         THEN RemoveFence(Tail(Tail(text)), mark)
         ELSE RemoveFence(Tail(text), mark)
    ELSE <<Head(text)>> \o RemoveFence(Tail(text), mark)

\* String.prototype.includes on two strings.
Includes(s, needle) ==
    \E i \in 1..(Len(s) - Len(needle) + 1) : SubSeq(s, i, i + Len(needle) - 1) = needle

\* The message of the SyntaxError JSON.parse throws is the engine's to choose:
\* one engine quotes the start of the text, another names the position.
Engines == {"quoting", "position"}

SyntaxErrorMessage(text, engine) ==
    IF text = <<>> THEN "Unexpected end of JSON input"
    ELSE IF IsObj(Head(text)) \/ IsScalar(Head(text)) \/ Head(text).tok = "["
    THEN IF text[Len(text)].tok \in {"[", ","} \/ IsObj(text[Len(text)])
         THEN "Unexpected end of JSON input"
         ELSE "Unexpected non-whitespace character after JSON"
    ELSE LET run == Head(text).tok IN
         IF engine = "quoting"
         THEN "Unexpected token '" \o SubSeq(run, 1, 1) \o "', \""
                \o SubSeq(run, 1, IF Len(run) < 10 THEN Len(run) ELSE 10)
                \o "\"... is not valid JSON"
         ELSE "Unexpected token " \o SubSeq(run, 1, 1) \o " in JSON at position 0"

\* JSON.parse: white space between the pieces is insignificant; val is the
\* value parsed.
JSONParse(text, engine) ==
    LET body == SelectSeq(text, LAMBDA t : ~IsSpace(t))
        n == Len(body)
    IN IF n = 1 /\ IsObj(body[1])
       THEN Returned([kind |-> "object", items |-> <<body[1].value>>])
       ELSE IF n = 1 /\ IsScalar(body[1])
       THEN Returned([kind |-> "scalar", items |-> <<>>])
       ELSE IF n = 2 /\ body[1].tok = "[" /\ body[2].tok = "]"
       THEN Returned([kind |-> "array", items |-> <<>>])
       ELSE IF /\ n >= 3 /\ n % 2 = 1
               /\ body[1].tok = "[" /\ body[n].tok = "]"
               /\ \A i \in 2..(n - 1) : IF i % 2 = 0 THEN IsObj(body[i])
                                                    ELSE body[i].tok = ","
       THEN Returned([kind |-> "array",
                      items |-> [i \in 1..((n - 1) \div 2) |-> body[2 * i].value]])
       ELSE Thrown(SyntaxErrorMessage(trimStart(text), engine), <<>>)

\* jsonText.match(/\[\s*\{[\s\S]*\}\s*\]/): the leftmost "[" that an object
\* follows up to the last "]" that an object precedes; <<>> when none.
ArrayMatch(text) ==
    LET opens == { i \in 1..Len(text) :
                     /\ text[i].tok = "["
                     /\ \E j \in (i + 1)..Len(text) :
                          /\ IsObj(text[j])
                          /\ \A k \in (i + 1)..(j - 1) : IsSpace(text[k]) }
        closes(i) == { j \in (i + 1)..Len(text) :
                         /\ text[j].tok = "]"
                         /\ \E k \in (i + 1)..(j - 1) :
                              /\ IsObj(text[k])
                              /\ \A m \in (k + 1)..(j - 1) : IsSpace(text[m]) }
    IN IF \E i \in opens : closes(i) # {}
       THEN LET i == CHOOSE a \in opens :
                       closes(a) # {} /\ \A b \in opens : closes(b) # {} => a <= b
                j == CHOOSE c \in closes(i) : \A d \in closes(i) : d <= c
            IN SubSeq(text, i, j)
       ELSE <<>>

\* String.prototype.toUpperCase and charCodeAt(0), on the letters tried.
UpperOf == [a |-> "A", b |-> "B", c |-> "C", d |-> "D"]

toUpperCase(ch) == IF ch \in DOMAIN UpperOf THEN UpperOf[ch] ELSE ch

CharCodes ==
    [A |-> 65, B |-> 66, C |-> 67, D |-> 68, a |-> 97, b |-> 98, c |-> 99, d |-> 100]

charCodeAt(ch) == CharCodes[ch]

charAt(s, i) == SubSeq(s, i + 1, i + 1)

RECURSIVE MapItems_NoUpperCase(_, _)
MapItems_NoUpperCase(items, index) ==
    IF items = <<>> THEN Returned(<<>>)
    ELSE LET item == Head(items) IN
         IF item.correctAnswer = Undefined
         THEN Thrown("Cannot read properties of undefined (reading 'toUpperCase')", <<>>)
         ELSE LET correctIndex == charCodeAt(charAt(item.correctAnswer[1], 0)) - 65
                  questionText == IF Truthy(item.question) THEN item.question[1] ELSE ""
                  rest == MapItems_NoUpperCase(Tail(items), index + 1)
              IN IF rest.err # "" THEN rest
                 ELSE Returned(<<NewQuestion(index + 1, questionText, item.options,
                                             correctIndex, Undefined)>> \o rest.val)

RECURSIVE MapItems(_, _)
\* data.map((item, index) => new Question(index + 1, ...)): a missing
\* correctAnswer throws a TypeError.
MapItems(items, index) ==
    IF items = <<>> THEN Returned(<<>>)
    ELSE LET item == Head(items) IN
         IF item.correctAnswer = Undefined
         THEN Thrown("Cannot read properties of undefined (reading 'toUpperCase')", <<>>)
         ELSE LET correctAnswerLetter == toUpperCase(charAt(item.correctAnswer[1], 0))
                  correctIndex == charCodeAt(correctAnswerLetter) - 65
                  questionText == IF Truthy(item.question) THEN item.question[1] ELSE ""
                  rest == MapItems(Tail(items), index + 1)
              IN IF rest.err # "" THEN rest
                 ELSE Returned(<<NewQuestion(index + 1, questionText, item.options,
                                             correctIndex, Undefined)>> \o rest.val)

InvalidJSON(parseError) ==
    "Invalid JSON response from AI. Please try again. Error: " \o parseError

\* GeminiAIService.parseQuestionsFromResponse: val is the Question list.
parseQuestionsFromResponse(responseText, engine) ==
    LET trimmed == trim(responseText)
        unfenced == IF startsWith(trimmed, JSONFenceMark)
                    THEN RemoveFence(RemoveFence(trimmed, JSONFenceMark), FenceMark)
                    ELSE IF startsWith(trimmed, FenceMark)
                    THEN RemoveFence(trimmed, FenceMark)
                    ELSE trimmed
        jsonText == trim(unfenced)
        first == JSONParse(jsonText, engine)
        arrayMatch == ArrayMatch(jsonText)
        data == IF first.err = "" THEN first
                ELSE IF arrayMatch # <<>>
                THEN LET retry == JSONParse(arrayMatch, engine)
                     IN IF retry.err = "" THEN retry
                        ELSE Thrown(InvalidJSON(first.err), <<>>)
                ELSE Thrown(InvalidJSON(first.err), <<>>)
    IN IF data.err # "" THEN data
       ELSE IF data.val.kind # "array"
       THEN Thrown("Invalid response format: expected array of questions", <<>>)
       ELSE MapItems(data.val.items, 0)

\* The first line of the messages the two catch blocks throw.
RateLimitExceeded == "API Rate Limit Exceeded"

InvalidAPIKey == "Invalid API Key"

analyzeDocument_KeyFirst(provider, engine) ==
    LET out == provider[1]
        r == IF out.err # "" THEN out ELSE parseQuestionsFromResponse(out.val, engine)
    IN IF r.err = "" THEN r
       ELSE IF Includes(r.err, "API key") THEN Thrown(InvalidAPIKey, <<>>)
       ELSE IF Includes(r.err, "429") THEN Thrown(RateLimitExceeded, <<>>)
       ELSE Thrown("Failed to analyze document: " \o r.err, <<>>)

\* GeminiAIService.analyzeDocument: provider[k] is what the k-th call of
\* model.generateContent settles with.  The method makes one call; the parse
\* runs inside the try block, so the catch sees its errors too.
analyzeDocument(provider, engine) ==
    LET out == provider[1]
        r == IF out.err # "" THEN out ELSE parseQuestionsFromResponse(out.val, engine)
    IN IF r.err = "" THEN r
       ELSE IF Includes(r.err, "429") THEN Thrown(RateLimitExceeded, <<>>)
       ELSE IF Includes(r.err, "API key") THEN Thrown(InvalidAPIKey, <<>>)
       ELSE Thrown("Failed to analyze document: " \o r.err, <<>>)

\* GeminiAIService.generateQuestions, likewise.
generateQuestions(provider, engine) ==
    LET out == provider[1]
        r == IF out.err # "" THEN out ELSE parseQuestionsFromResponse(out.val, engine)
    IN IF r.err = "" THEN r
       ELSE IF Includes(r.err, "429") THEN Thrown(RateLimitExceeded, <<>>)
       ELSE IF Includes(r.err, "API key") THEN Thrown(InvalidAPIKey, <<>>)
       ELSE Thrown("Failed to generate questions: " \o r.err, <<>>)

\* ------------------------------------------------- what the provider answers
ItemLetters == {"A", "B", "C", "D", "a", "b", "c", "d"}

\* The elements of the array the AI writes: each carries an id of its own.
Items ==
    { [id |-> Some(7), question |-> Some("Q"),
       options |-> <<"A) a", "B) b", "C) c", "D) d">>, correctAnswer |-> ca] :
        ca \in { Some(l) : l \in ItemLetters } \cup { Some("B) b"), Undefined } }

ItemLists == UNION { [1..n -> Items] : n \in 0..MaxQuestions }

RECURSIVE Elements(_)
Elements(items) ==
    IF items = <<>> THEN <<>>
    ELSE IF Len(items) = 1 THEN <<Obj(items[1])>>
    ELSE <<Obj(Head(items)), Tok(",")>> \o Elements(Tail(items))

\* The text of the JSON array of items.
ArrayText(items) == <<Tok("[")>> \o Elements(items) \o <<Tok("]")>>

Fences == {"", JSONFenceMark, FenceMark}

\* body inside markdown code fencing opened by fence ("" is no fencing).
Fenced(fence, body) ==
    IF fence = "" THEN body
    ELSE <<Tok(fence), Tok("\n")>> \o body \o <<Tok("\n"), Tok(FenceMark)>>

AnItem == CHOOSE item \in Items : item.correctAnswer = Some("A")

\* Texts that are no JSON array: prose, an object, a scalar, a cut-off array,
\* nothing.
MalformedTexts ==
    { <<Tok("I could not find any questions in this document.")>>,
      <<Tok("API key management is what this document covers, not a quiz.")>>,
      <<Obj(AnItem)>>,
      <<Tok("null")>>,
      <<Tok("["), Obj(AnItem), Tok(",")>>,
      <<>> }

ResponseTexts ==
    { Fenced(fence, ArrayText(items)) : fence \in Fences, items \in ItemLists }
    \cup { <<Tok("Here are the questions:"), Tok("\n")>> \o ArrayText(items) :
             items \in ItemLists }
    \cup MalformedTexts

\* The messages of the errors model.generateContent rejects with.
RateLimitFailures ==
    { "[429 Too Many Requests] Resource has been exhausted",
      "[429 Too Many Requests] Quota exceeded for this API key" }

CredentialFailures ==
    { "[400 Bad Request] API key not valid. Please pass a valid API key." }

OtherFailures == { "fetch failed", "" }

ProviderOutcomes ==
    { Thrown(m, <<>>) : m \in RateLimitFailures \cup CredentialFailures \cup OtherFailures }
    \cup { Returned(text) : text \in ResponseTexts }

\* A provider whose first call settles with out and whose later calls would
\* return a well-formed array.
Provider(out) == <<out, Returned(ArrayText(<<AnItem>>))>>

InitAdapter ==
    /\ exams = <<>>
    /\ currentExam = Null
    /\ pending = <<>>
    /\ now = 0
    /\ storage = Undefined
    /\ app = InitialApp
    /\ last \in { Outcome("new GeminiAIService", <<Provider(out)>>, "", Null, NoResult) :
                    out \in ProviderOutcomes }

AnalyzeDocument(engine) ==
    /\ last.op = "new GeminiAIService"
    /\ LET r == analyzeDocument(last.arg[1], engine)
           outcome == Outcome("analyzeDocument", <<last.arg[1], engine>>, r.err, Null,
                              Some([questions |-> r.val, calls |-> 1]))
       IN last' = outcome
    /\ UNCHANGED <<exams, currentExam, pending, now, storage, app>>

GenerateQuestions(engine) ==
    /\ last.op = "new GeminiAIService"
    /\ LET r == generateQuestions(last.arg[1], engine)
           outcome == Outcome("generateQuestions", <<last.arg[1], engine>>, r.err, Null,
                              Some([questions |-> r.val, calls |-> 1]))
       IN last' = outcome
    /\ UNCHANGED <<exams, currentExam, pending, now, storage, app>>

NextAdapter ==
    \/ \E engine \in Engines : AnalyzeDocument(engine)
    \/ \E engine \in Engines : GenerateQuestions(engine)

SpecAdapter == InitAdapter /\ [][NextAdapter]_vars

\* ------------------------------------------- ExamService and localStorage
QuestionToJSON_NoAnswer(q) ==
    [id |-> q.id, text |-> q.text, options |-> q.options,
     correctIndex |-> q.correctIndex, difficulty |-> q.difficulty,
     userAnswer |-> Undefined]

\* Question.toJSON
QuestionToJSON(q) ==
    [id |-> q.id, text |-> q.text, options |-> q.options,
     correctIndex |-> q.correctIndex, difficulty |-> q.difficulty,
     userAnswer |-> q.userAnswer]

\* Exam.toJSON: toISOString throws a RangeError on an invalid Date.
ExamToJSON(e) ==
    IF e.startTime = Some(InvalidDate) \/ e.endTime = Some(InvalidDate)
    THEN Thrown("Invalid time value", <<>>)
    ELSE Returned(
           [title |-> e.title,
            questions |-> [k \in 1..Len(e.questions) |-> QuestionToJSON(e.questions[k])],
            timeLimit |-> e.timeLimit,
            startTime |-> IF e.startTime = Undefined THEN Undefined
                          ELSE Some(toISOString(e.startTime[1])),
            endTime |-> IF e.endTime = Undefined THEN Undefined
                        ELSE Some(toISOString(e.endTime[1]))])

\* JSON.stringify of an object: its text; keys holding undefined are left out,
\* as they are in the object read back.
JSONStringify(value) == <<Obj(value)>>

\* The body of saveExam's try block: the slot after the call.  setItem throws
\* when the store takes no more (writable is FALSE).
saveExam_Uncaught(stored, e, writable) ==
    LET json == ExamToJSON(e) IN
    IF json.err # "" THEN Thrown(json.err, stored)
    ELSE IF ~writable THEN Thrown("QuotaExceededError", stored)
    ELSE Returned(Some(JSONStringify(json.val)))

\* ExamService.saveExam: the catch logs the error and returns.
saveExam(stored, e, writable) ==
    LET r == saveExam_Uncaught(stored, e, writable)
    IN IF r.err # "" THEN Returned(stored) ELSE r

\* The body of loadExam's try block: val is the Exam returned, <<>> for null.
loadExam_Uncaught(stored, engine) ==
    IF stored = Undefined \/ stored = Some(<<>>) THEN Returned(Undefined)
    ELSE LET parsed == JSONParse(stored[1], engine) IN
         IF parsed.err # "" THEN Thrown(parsed.err, Undefined)
         ELSE IF parsed.val.kind = "scalar"
         THEN Thrown("Cannot read properties of null (reading 'questions')", Undefined)
         ELSE IF \/ parsed.val.kind = "array"
                 \/ "questions" \notin DOMAIN parsed.val.items[1]
         THEN Thrown("Cannot read properties of undefined (reading 'map')", Undefined)
         ELSE LET r == ExamFromJSON(parsed.val.items[1])
              IN IF r.err # "" THEN Thrown(r.err, Undefined) ELSE Returned(Some(r.val))

\* ExamService.loadExam: the catch logs the error and returns null.
loadExam(stored, engine) ==
    LET r == loadExam_Uncaught(stored, engine)
    IN IF r.err # "" THEN Returned(Undefined) ELSE r

SaveExam(e, writable) ==
    /\ e \in 1..Len(exams)
    /\ LET r == saveExam(storage, exams[e], writable)
       IN /\ storage' = r.val
          /\ Commit(exams, currentExam,
                    Outcome("saveExam", <<writable>>, r.err, e, NoResult))
    /\ UNCHANGED <<pending, now>>

LoadExam ==
    /\ \E engine \in Engines :
         LET r == loadExam(storage, engine)
         IN IF r.val = Undefined
            THEN Commit(exams, currentExam,
                        Outcome("loadExam", <<>>, r.err, Null, NoResult))
            ELSE Commit(Append(exams, r.val[1]), currentExam,
                        Outcome("loadExam", <<>>, r.err, Len(exams) + 1, NoResult))
    /\ UNCHANGED <<pending, now, storage>>

ClearSavedExam ==
    /\ storage' = Undefined
    /\ Commit(exams, currentExam, Outcome("clearSavedExam", <<>>, "", Null, NoResult))
    /\ UNCHANGED <<pending, now>>

\* What the slot may hold that saveExam did not write: text that is no JSON,
\* JSON of the wrong shape, an exam whose stored answer is no valid index, and
\* an exam whose stored start time is no date.
UnparseableStored == { <<Tok("not json")>>, <<Tok("[")>> }

WrongShapeStored ==
    { <<Tok("null")>>, <<Tok("["), Tok("]")>>, <<Obj([title |-> "AI Generated Exam"])>> }

AStoredQuestion == NewQuestion(1, "Q", <<"A) a", "B) b">>, 1, Undefined)

InvalidAnswerStored ==
    { <<Obj([title |-> "AI Generated Exam",
             questions |-> <<[AStoredQuestion EXCEPT !.userAnswer = Some(i)]>>,
             timeLimit |-> Undefined, startTime |-> Undefined,
             endTime |-> Undefined])>> : i \in {0 - 1, 2} }

InvalidDateStored ==
    { <<Obj([title |-> "AI Generated Exam", questions |-> <<AStoredQuestion>>,
             timeLimit |-> Undefined, startTime |-> Some("yesterday"),
             endTime |-> Undefined])>> }

InitialStorage ==
    { Undefined, Some(<<>>) }
    \cup { Some(text) : text \in UnparseableStored \cup WrongShapeStored
                               \cup InvalidAnswerStored \cup InvalidDateStored }

InitStorage ==
    /\ exams = <<>>
    /\ currentExam = Null
    /\ pending = <<>>
    /\ now = 0
    /\ storage \in InitialStorage
    /\ app = InitialApp
    /\ last = Outcome("new ExamService", <<>>, "", Null, NoResult)

\* The service together with the slot it saves to.
NextStorage ==
    \/ CreateExamFromFile
    \/ \E questionId \in QuestionIds, answerIndex \in AnswerIndices :
         SubmitAnswer(questionId, answerIndex)
    \/ \E e \in 1..Len(exams), writable \in BOOLEAN : SaveExam(e, writable)
    \/ LoadExam
    \/ ClearSavedExam
    \/ ResetExam

SpecStorage == InitStorage /\ [][NextStorage]_vars

\* ------------------------------------ an Exam object and its serialized form
\* An array of Questions as a caller holds it: array tells whether it is the
\* Exam's own array.  The constructor stores the array it is supplied with
\* (this._questions = questions), so the caller that supplied it holds the
\* Exam's own array; get questions() hands out a new array of the same
\* Question objects.
suppliedQuestions(e) == [array |-> "internal", elems |-> e.questions]

questions(e) == [array |-> "copy", elems |-> e.questions]

\* What a caller does to an array it was handed: push, pop, reverse.
ArrayMutations == {"push", "pop", "reverse"}

AnotherQuestion == NewQuestion(99, "Q", <<"A) a", "B) b">>, 0, Undefined)

Mutated(elems, mutation) ==
    IF mutation = "push" THEN Append(elems, AnotherQuestion)
    ELSE IF mutation = "pop" THEN SubSeq(elems, 1, Len(elems) - 1)
    ELSE [k \in 1..Len(elems) |-> elems[Len(elems) + 1 - k]]

\* The difficulty tags a Question is constructed with, by its place in the list.
Difficulties == <<Undefined, Some("easy"), Some("hard")>>

TimeLimits == { Undefined, Some(30) }

\* new Exam(title, questions, timeLimit): not started, nothing answered.
BuiltExams ==
    { NewExam("AI Generated Exam",
              [k \in 1..n |-> NewQuestion(k, "Q", <<"A) a", "B) b">>, 1,
                                          Difficulties[((k - 1) % 3) + 1])],
              timeLimit) :
        n \in 0..MaxQuestions, timeLimit \in TimeLimits }

InitJSON ==
    /\ exams \in { <<e>> : e \in BuiltExams }
    /\ currentExam = Null
    /\ pending = <<>>
    /\ now = 0
    /\ storage = Undefined
    /\ app = InitialApp
    /\ last = Outcome("new Exam", <<>>, "", 1, NoResult)

\* The exam after mutation was done to the array held.
MutateArray(e, held, mutation) ==
    IF held.array = "internal"
    THEN [e EXCEPT !.questions = Mutated(held.elems, mutation)]
    ELSE e

\* const qs = exam.questions; qs.push(q) / qs.pop() / qs.reverse()
MutateQuestionsArray(e, mutation) ==
    /\ e \in 1..Len(exams)
    /\ Commit([exams EXCEPT ![e] = MutateArray(@, questions(@), mutation)],
              currentExam, Outcome("Exam.questions", <<mutation>>, "", e, NoResult))
    /\ UNCHANGED <<pending, now, storage>>

\* const exam = new Exam(title, qs); qs.push(q) / qs.pop() / qs.reverse(): the
\* caller that constructed the Exam goes on using the array it supplied.
MutateSuppliedArray(e, mutation) ==
    /\ e \in 1..Len(exams)
    /\ last.op \in {"new Exam", "new Exam(title, qs)"}
    /\ mutation = "push" => Len(exams[e].questions) <= MaxQuestions
    /\ Commit([exams EXCEPT ![e] = MutateArray(@, suppliedQuestions(@), mutation)],
              currentExam, Outcome("new Exam(title, qs)", <<mutation>>, "", e, NoResult))
    /\ UNCHANGED <<pending, now, storage>>

\* Exam.fromJSON(exam.toJSON()): the outcome keeps exam and the Exam built.
ExamRoundTrip(e) ==
    /\ e \in 1..Len(exams)
    /\ LET json == ExamToJSON(exams[e])
           r == IF json.err # "" THEN Thrown(json.err, Undefined)
                ELSE ExamFromJSON(json.val)
       IN IF r.err # ""
          THEN Commit(exams, currentExam,
                      Outcome("Exam.fromJSON(toJSON)", <<>>, r.err, e, NoResult))
          ELSE Commit(Append(exams, r.val), currentExam,
                      Outcome("Exam.fromJSON(toJSON)", <<>>, "", e,
                              Some([exam |-> Len(exams) + 1])))
    /\ UNCHANGED <<pending, now, storage>>

\* Question.fromJSON(q.toJSON()), q being the k-th question of exam: the
\* outcome keeps the Question built.
QuestionRoundTrip(e, k) ==
    /\ e \in 1..Len(exams)
    /\ k \in 1..Len(exams[e].questions)
    /\ LET r == QuestionFromJSON(QuestionToJSON(questions(exams[e]).elems[k]))
       IN Commit(exams, currentExam,
                 Outcome("Question.fromJSON(toJSON)", <<k>>, r.err, e,
                         IF r.err # "" THEN NoResult
                         ELSE Some([exam |-> e, question |-> r.val])))
    /\ UNCHANGED <<pending, now, storage>>

\* Question.fromJSON(data), data being the record of the k-th question of exam
\* with stored standing in its userAnswer key.
QuestionFromStored(e, k, stored) ==
    /\ e \in 1..Len(exams)
    /\ k \in 1..Len(exams[e].questions)
    /\ LET data == [QuestionToJSON(exams[e].questions[k]) EXCEPT !.userAnswer = stored]
           r == QuestionFromJSON(data)
       IN Commit(exams, currentExam,
                 Outcome("Question.fromJSON", <<k, stored>>, r.err, e,
                         IF r.err # "" THEN NoResult
                         ELSE Some([exam |-> e, question |-> r.val])))
    /\ UNCHANGED <<pending, now, storage>>

\* exam.getElapsedTime()
ExamGetElapsedTime(e) ==
    /\ e \in 1..Len(exams)
    /\ Commit(exams, currentExam,
              Outcome("Exam.getElapsedTime", <<>>, "", e,
                      Some([exam |-> e, value |-> getElapsedTime(exams[e], now)])))
    /\ UNCHANGED <<pending, now, storage>>

\* An Exam a caller constructed, the calls made on it and on its serialized
\* form.
NextJSON ==
    \/ \E e \in 1..Len(exams) : ExamStart(e)
    \/ \E e \in 1..Len(exams) : ExamEnd(e)
    \/ \E e \in 1..Len(exams), questionId \in QuestionIds, answerIndex \in AnswerIndices :
         ExamAnswerQuestion(e, questionId, answerIndex)
    \/ \E e \in 1..Len(exams), mutation \in ArrayMutations : MutateQuestionsArray(e, mutation)
    \/ \E e \in 1..Len(exams) : ExamRoundTrip(e)
    \/ \E e \in 1..Len(exams), k \in 1..MaxQuestions : QuestionRoundTrip(e, k)
    \/ \E e \in 1..Len(exams), k \in 1..MaxQuestions,
          stored \in { Undefined } \cup { Some(i) : i \in AnswerIndices } :
         QuestionFromStored(e, k, stored)
    \/ \E e \in 1..Len(exams) : ExamGetElapsedTime(e)
    \/ Tick

SpecJSON == InitJSON /\ [][NextJSON]_vars

\* An Exam a caller constructed, the calls made on it, and what the caller does
\* with the array it supplied and with the arrays the questions getter returns.
NextArray ==
    \/ \E e \in 1..Len(exams) : ExamStart(e)
    \/ \E e \in 1..Len(exams) : ExamEnd(e)
    \/ \E e \in 1..Len(exams), questionId \in QuestionIds, answerIndex \in AnswerIndices :
         ExamAnswerQuestion(e, questionId, answerIndex)
    \/ \E e \in 1..Len(exams), mutation \in ArrayMutations : MutateQuestionsArray(e, mutation)
    \/ \E e \in 1..Len(exams), mutation \in ArrayMutations : MutateSuppliedArray(e, mutation)
    \/ \E e \in 1..Len(exams) : ExamGetElapsedTime(e)

SpecArray == InitJSON /\ [][NextArray]_vars

\* ExamService.getProgress
getProgress(exs, cur) ==
    IF cur = Null THEN [answered |-> 0, total |-> 0, percentage |-> Fraction(0, 1)]
    ELSE [answered |-> getAnsweredCount(exs[cur]),
          total |-> totalQuestions(exs[cur]),
          percentage |-> getProgressPercentage(exs[cur])]

GetProgress ==
    /\ Commit(exams, currentExam,
              Outcome("getProgress", <<>>, "", Null,
                      Some([exam |-> currentExam,
                            progress |-> getProgress(exams, currentExam)])))
    /\ UNCHANGED <<pending, now, storage>>

\* The calls of the service, each run to completion, with the slot; the clock
\* stands still.
NextSession ==
    \/ CreateExamFromFile
    \/ StartExam
    \/ \E questionId \in QuestionIds, answerIndex \in AnswerIndices :
         SubmitAnswer(questionId, answerIndex)
    \/ CompleteExam
    \/ GetProgress
    \/ \E e \in 1..Len(exams), writable \in BOOLEAN : SaveExam(e, writable)
    \/ LoadExam
    \/ ClearSavedExam
    \/ ResetExam

SpecSession == Init /\ [][NextSession]_vars

\* --------------------------------------------- the service and the exam clock
\* The stored exams that were never started and hold no answer.
UnstartedExams ==
    { data \in StoredExams :
        /\ Len(data.questions) = 1
        /\ data.questions[1].options = <<"A) a", "B) b">>
        /\ data.questions[1].userAnswer = Undefined }

\* The service, the Exam it returns to the views, and an Exam restored without
\* a start time, with the calls that read and stamp the exam's clock.
NextTime ==
    \/ CreateExamFromFile
    \/ \E questionId \in QuestionIds, answerIndex \in AnswerIndices :
         SubmitAnswer(questionId, answerIndex)
    \/ CompleteExam
    \/ \E data \in UnstartedExams : RestoreExam(data)
    \/ \E e \in 1..Len(exams) : ExamStart(e)
    \/ \E e \in 1..Len(exams) : ExamEnd(e)
    \/ \E e \in 1..Len(exams) : ExamGetElapsedTime(e)
    \/ Tick

SpecTime == Init /\ [][NextTime]_vars

\* ------------------------------------------------ the App and its views
\* renderContent: the view App shows.  The exam and results views fall back
\* to the upload form when App holds no exam.
Rendered(ap) ==
    IF ap.view = "exam" /\ ap.exam # Null THEN "Exam"
    ELSE IF ap.view = "results" /\ ap.exam # Null THEN "Results"
    ELSE "UploadForm"

\* UploadForm.handleSubmit up to its await.  The submit button is disabled
\* while a call of this form is loading.
UploadFormSubmit ==
    /\ Rendered(app) = "UploadForm"
    /\ pending = <<>>
    /\ pending' = <<FileCall(Some("Test Bank Exam"))>>
    /\ Commit(exams, currentExam,
              Outcome("UploadForm.handleSubmit: await", <<>>, "", Null, NoResult))
    /\ UNCHANGED <<now, storage>>

\* handleExamStart(exam): setCurrentExam(exam); setView('exam').
handleExamStart(ap, exam) == [view |-> "exam", exam |-> exam]

\* The rest of handleSubmit once the service call has settled: the exam goes
\* to onExamStart when it has a question, and an error is shown otherwise.
UploadFormResume(out) ==
    /\ pending # <<>>
    /\ LET r == createExam(pending[1], out, exams, currentExam, now)
           started == r.err = "" /\ totalQuestions(r.exams[r.ret]) > 0
           shown == IF r.err # "" THEN r.err
                    ELSE IF started THEN ""
                    ELSE "No questions were found in the document."
       IN CommitApp(r.exams, r.cur,
                    Outcome("UploadForm.handleSubmit", <<out>>, shown, r.ret, NoResult),
                    IF started THEN handleExamStart(app, r.ret) ELSE app)
    /\ pending' = <<>>
    /\ UNCHANGED <<now, storage>>

\* Exam.handleOptionChange: the answer chosen for a question of the exam shown.
HandleOptionChange ==
    /\ Rendered(app) = "Exam"
    /\ \E k \in 1..Len(exams[app.exam].questions) :
         \E optionIndex \in 0..(Len(exams[app.exam].questions[k].options) - 1) :
            ExamAnswerQuestion(app.exam, exams[app.exam].questions[k].id, optionIndex)

\* handleExamSubmit: if (currentExam) currentExam.end(); setView('results').
HandleExamSubmit ==
    /\ Rendered(app) = "Exam"
    /\ CommitApp(IF app.exam # Null THEN [exams EXCEPT ![app.exam] = end(@, now)]
                 ELSE exams,
                 currentExam,
                 Outcome("App.handleExamSubmit", <<>>, "", app.exam, NoResult),
                 [app EXCEPT !.view = "results"])
    /\ UNCHANGED <<pending, now, storage>>

\* The Results view renders: const result = new ExamResult(exam).
RenderResults ==
    /\ Rendered(app) = "Results"
    /\ ConstructExamResult(app.exam)

HandleRestart_KeepsService ==
    /\ Rendered(app) = "Results"
    /\ CommitApp(exams, currentExam,
                 Outcome("App.handleRestart", <<>>, "", Null, NoResult), InitialApp)
    /\ UNCHANGED <<pending, now, storage>>

\* handleRestart: setView('upload'); setCurrentExam(null);
\* examService.resetExam().
HandleRestart ==
    /\ Rendered(app) = "Results"
    /\ CommitApp(exams, Null,
                 Outcome("App.handleRestart", <<>>, "", Null, NoResult), InitialApp)
    /\ UNCHANGED <<pending, now, storage>>

NextApp ==
    \/ UploadFormSubmit
    \/ \E out \in AdapterOutcomes : UploadFormResume(out)
    \/ HandleOptionChange
    \/ HandleExamSubmit
    \/ RenderResults
    \/ HandleRestart
    \/ Tick

SpecApp == Init /\ [][NextApp]_vars

\* ====================================================================
\* Properties
\* ====================================================================
\* The questions of exam object e that hold a recorded answer, and those whose
\* recorded answer is the correct option, counted from the fields themselves.
AnsweredSet(e) == { k \in 1..Len(e.questions) : e.questions[k].userAnswer # Undefined }

CorrectSet(e) ==
    { k \in 1..Len(e.questions) :
        e.questions[k].userAnswer = <<e.questions[k].correctIndex>> }

ValidIndex(q, i) == 0 <= i /\ i < Len(q.options)

\* The first question of e with identifier questionId, 0 when there is none.
FirstWithId(e, questionId) ==
    LET hits == { k \in 1..Len(e.questions) : e.questions[k].id = questionId }
    IN IF hits = {} THEN 0 ELSE CHOOSE k \in hits : \A j \in hits : k <= j

C3_CreateOutcome(call, out) ==
    last'.op = call.op /\ out.err = "" /\ CreateExam(call, out) =>
        IF out.val = <<>>
        THEN /\ last'.err = call.empty
             /\ last'.exam = Null
             /\ exams' = exams
             /\ currentExam' = currentExam
        ELSE /\ last'.err = ""
             /\ currentExam' # Null
             /\ last'.exam = currentExam'
             /\ exams'[currentExam'].questions = out.val
             /\ exams'[currentExam'].startTime = <<now>>
             /\ exams'[currentExam'].endTime = Undefined

C5_AnswerQuestionFailures ==
    [][last'.op = "Exam.answerQuestion" =>
        \A e \in 1..Len(exams) :
          ExamAnswerQuestion(e, last'.arg[1], last'.arg[2]) =>
            LET questionId == last'.arg[1]
                answerIndex == last'.arg[2]
                k == FirstWithId(exams[e], questionId)
            IN /\ (k = 0 => last'.err =
                     "Question with id " \o ToString(questionId) \o " not found")
               /\ (k # 0 => /\ last'.err \in {"", "Invalid answer index"}
                            /\ last'.err =
                                 setUserAnswer(exams[e].questions[k], answerIndex).err)
               /\ (last'.err # "" =>
                     \A j \in 1..Len(exams[e].questions) :
                        exams'[last'.exam].questions[j].userAnswer
                          = exams[e].questions[j].userAnswer)]_vars

C5_Witness ==
    /\ last.op = "Exam.answerQuestion"
    /\ last.err = "Question with id 2 not found"
    /\ Len(exams[last.exam].questions) = 1
    /\ AnsweredSet(exams[last.exam]) # {}

\* C6: recording a valid index i on a question, whatever it held before,
\* leaves it answered, holding i, and correct exactly when i is correctIndex.
C6_ValidAnswerRecorded ==
    [][last'.op = "Exam.answerQuestion" =>
        \A e \in 1..Len(exams) :
          LET i == last'.arg[2]
              k == FirstWithId(exams[e], last'.arg[1])
          IN (/\ ExamAnswerQuestion(e, last'.arg[1], i)
              /\ k # 0
              /\ ValidIndex(exams[e].questions[k], i))
             => LET after == exams'[last'.exam].questions[k]
                IN /\ last'.err = ""
                   /\ isAnswered(after)
                   /\ after.userAnswer = <<i>>
                   /\ isCorrect(after) <=> (i = exams[e].questions[k].correctIndex)]_vars

C6_Witness ==
    /\ last.op = "Exam.answerQuestion"
    /\ last.err = ""
    /\ \E k \in 1..Len(exams[last.exam].questions) :
         /\ exams[last.exam].questions[k].id = last.arg[1]
         /\ exams[last.exam].questions[k].userAnswer = <<last.arg[2]>>
         /\ last.arg[2] # exams[last.exam].questions[k].correctIndex
         /\ ~isCorrect(exams[last.exam].questions[k])

\* C7: recording an index below 0 or at or beyond the number of options fails
\* with the invalid-answer-index error and leaves the question's recorded
\* answer, present or absent, as it was.
C7_InvalidAnswerRejected ==
    [][last'.op = "Exam.answerQuestion" =>
        \A e \in 1..Len(exams) :
          LET i == last'.arg[2]
              k == FirstWithId(exams[e], last'.arg[1])
          IN (/\ ExamAnswerQuestion(e, last'.arg[1], i)
              /\ k # 0
              /\ ~ValidIndex(exams[e].questions[k], i))
             => LET before == exams[e].questions[k]
                    after == exams'[last'.exam].questions[k]
                IN /\ last'.err = "Invalid answer index"
                   /\ after.userAnswer = before.userAnswer
                   /\ isAnswered(after) = isAnswered(before)
                   /\ isCorrect(after) = isCorrect(before)]_vars

C7_Witness ==
    /\ last.op = "Exam.answerQuestion"
    /\ last.err = "Invalid answer index"
    /\ \E k \in 1..Len(exams[last.exam].questions) :
         /\ exams[last.exam].questions[k].id = last.arg[1]
         /\ exams[last.exam].questions[k].userAnswer # Undefined
         /\ last.arg[2] = Len(exams[last.exam].questions[k].options)

\* C8: in every reachable state an Exam whose end timestamp is present has a
\* start timestamp that is not later.
C8_EndNotBeforeStart ==
    \A e \in 1..Len(exams) :
        exams[e].endTime # Undefined =>
            /\ exams[e].startTime # Undefined
            /\ exams[e].endTime[1] >= exams[e].startTime[1]

\* C9: every recorded answer, however it was recorded or restored, is a valid
\* index into its question's option list.
C9_RecordedAnswerValid ==
    \A e \in 1..Len(exams) : \A k \in 1..Len(exams[e].questions) :
        LET q == exams[e].questions[k]
        IN q.userAnswer # Undefined =>
              0 <= q.userAnswer[1] /\ q.userAnswer[1] < Len(q.options)

C9_Witness ==
    /\ last.op = "Exam.fromJSON"
    /\ last.err = ""
    /\ last.exam # Null
    /\ AnsweredSet(exams[last.exam]) # {}
    /\ \E k \in 1..Len(exams[last.exam].questions) :
         exams[last.exam].questions[k].userAnswer = <<0>>

\* C10: canSubmit() is true exactly when every question of the exam holds a
\* recorded answer: false with one question still unanswered, true once that
\* one is answered.
C10_CanSubmitIffAllAnswered ==
    \A e \in 1..Len(exams) :
        /\ getAnsweredCount(exams[e]) = Cardinality(AnsweredSet(exams[e]))
        /\ canSubmit(exams[e]) <=>
              (Cardinality(AnsweredSet(exams[e])) = Len(exams[e].questions))

C10_Witness ==
    /\ last.op = "Exam.answerQuestion"
    /\ last.err = ""
    /\ Len(exams[last.exam].questions) = MaxQuestions
    /\ Cardinality(AnsweredSet(exams[last.exam])) = MaxQuestions - 1
    /\ ~canSubmit(exams[last.exam])

\* C11: on an exam of total >= 1 questions, answering leaves answered exactly
\* the questions answered so far, each counted once however often it was
\* answered: getAnsweredCount() is the size of that set S and
\* getProgressPercentage() is 100*|S|/total.
C11_AnsweredCountAndProgress ==
    [][\A e \in 1..Len(exams') :
         Len(exams'[e].questions) >= 1 =>
           LET S == AnsweredSet(exams'[e])
               total == Len(exams'[e].questions)
               p == getProgressPercentage(exams'[e])
           IN /\ getAnsweredCount(exams'[e]) = Cardinality(S)
              /\ p.den # 0
              /\ p.num * total = 100 * Cardinality(S) * p.den
              /\ (/\ last'.op = "Exam.answerQuestion"
                  /\ last'.err = ""
                  /\ e = last'.exam
                  /\ e \in 1..Len(exams))
                 => S = AnsweredSet(exams[e])
                          \cup {FirstWithId(exams[e], last'.arg[1])}]_vars

C11_Witness ==
    /\ last.op = "Exam.answerQuestion"
    /\ last.err = ""
    /\ Len(exams[last.exam].questions) = 2
    /\ AnsweredSet(exams[last.exam]) = {2}
    /\ getAnsweredCount(exams[last.exam]) = 1
    /\ getProgressPercentage(exams[last.exam]) = Fraction(100, 2)

\* C12: on an exam of zero questions getProgressPercentage() is the number 0.
C12_ProgressZeroOnEmptyExam ==
    \A e \in 1..Len(exams) :
        Len(exams[e].questions) = 0 =>
            /\ getProgressPercentage(exams[e]).den # 0
            /\ getProgressPercentage(exams[e]).num = 0

\* The ExamResult the last call constructed, the exam it was constructed from,
\* that exam's question count and its number of correctly answered questions.
ResultBuilt == last.op = "new ExamResult" /\ last.result # NoResult

ResultExam == exams[last.result[1].exam]

\* C13: the grade of a result over n >= 1 questions, c of them correct, is A
\* iff 100c >= 90n, B iff 80n <= 100c < 90n, C iff 70n <= 100c < 80n, D iff
\* 60n <= 100c < 70n, and F iff 100c < 60n.
C13_GradeCutoffs ==
    ResultBuilt /\ Len(ResultExam.questions) >= 1 =>
        LET n == Len(ResultExam.questions)
            c == Cardinality(CorrectSet(ResultExam))
            grade == last.result[1].grade
        IN /\ grade \in {"A", "B", "C", "D", "F"}
           /\ (grade = "A") <=> (100 * c >= 90 * n)
           /\ (grade = "B") <=> (80 * n <= 100 * c /\ 100 * c < 90 * n)
           /\ (grade = "C") <=> (70 * n <= 100 * c /\ 100 * c < 80 * n)
           /\ (grade = "D") <=> (60 * n <= 100 * c /\ 100 * c < 70 * n)
           /\ (grade = "F") <=> (100 * c < 60 * n)

C13_Witness ==
    /\ ResultBuilt
    /\ Len(ResultExam.questions) = 10
    /\ Cardinality(CorrectSet(ResultExam)) = 7
    /\ last.result[1].grade = "C"

C15_EmptyExamResultFails ==
    (last.op = "new ExamResult" /\ Len(exams[last.exam].questions) = 0) =>
        /\ last.err # ""
        /\ last.result = NoResult

\* The outcome of an adapter call: what the provider's call settled with, and
\* the questions the adapter returned.
AdapterCalled == last.op \in {"analyzeDocument", "generateQuestions"}

ProviderOutcome == last.arg[1][1]

ReturnedQuestions == last.result[1].questions

\* The objects written in a response text, in order.
ItemsOf(text) ==
    LET objs == SelectSeq(text, IsObj)
    IN [i \in 1..Len(objs) |-> objs[i].value]

LetterIndex == [A |-> 0, B |-> 1, C |-> 2, D |-> 3, a |-> 0, b |-> 1, c |-> 2, d |-> 3]

C17_MalformedResponseErrors ==
    (AdapterCalled /\ ProviderOutcome.err = "") =>
        LET text == ProviderOutcome.val
            value == Len(text) = 1 /\ (IsObj(text[1]) \/ IsScalar(text[1]))
        IN /\ (~value /\ \A i \in 1..Len(text) : text[i].tok # "]") =>
                 /\ Includes(last.err, "Invalid JSON response from AI")
                 /\ Includes(last.err, SyntaxErrorMessage(text, last.arg[2]))
                 /\ last.err \notin {RateLimitExceeded, InvalidAPIKey}
           /\ value =>
                 /\ Includes(last.err, "Invalid response format")
                 /\ last.err \notin {RateLimitExceeded, InvalidAPIKey}

RoundTripDone == last.op = "Exam.fromJSON(toJSON)"

\* The identifiers of exam object e's questions, in exam order.
IdSeq(e) == [k \in 1..Len(e.questions) |-> e.questions[k].id]

\* C21: Exam.fromJSON(exam.toJSON()) returns a new Exam with the title, the
\* time limit and the questions of exam, the questions in the same order and
\* each with the same id, text, options, correctIndex, difficulty and recorded
\* answer (absent where it was absent), and with a start and an end timestamp
\* that are present exactly when exam's are and then equal to them; exam
\* itself stays as it was.
C21_ExamRoundTrip ==
    RoundTripDone =>
        /\ last.err = ""
        /\ last.result # NoResult
        /\ last.result[1].exam # last.exam
        /\ LET original == exams[last.exam]
               copy == exams[last.result[1].exam]
           IN /\ copy.title = original.title
              /\ copy.timeLimit = original.timeLimit
              /\ Len(copy.questions) = Len(original.questions)
              /\ IdSeq(copy) = IdSeq(original)
              /\ \A k \in 1..Len(original.questions) :
                    LET q == original.questions[k]
                        c == copy.questions[k]
                    IN /\ c.text = q.text
                       /\ c.options = q.options
                       /\ c.correctIndex = q.correctIndex
                       /\ c.difficulty = q.difficulty
                       /\ (c.userAnswer = Undefined) <=> (q.userAnswer = Undefined)
                       /\ c.userAnswer = q.userAnswer
              /\ AnsweredSet(copy) = AnsweredSet(original)
              /\ (copy.startTime = Undefined) <=> (original.startTime = Undefined)
              /\ (copy.endTime = Undefined) <=> (original.endTime = Undefined)
              /\ copy.startTime = original.startTime
              /\ copy.endTime = original.endTime

C21_Witness ==
    /\ RoundTripDone
    /\ last.err = ""
    /\ last.result # NoResult
    /\ Len(exams[last.exam].questions) = 2
    /\ AnsweredSet(exams[last.exam]) = {2}
    /\ exams[last.exam].timeLimit = <<30>>
    /\ exams[last.exam].startTime = <<0>>
    /\ exams[last.exam].endTime = <<TickMs>>
    /\ exams[last.result[1].exam].endTime = <<TickMs>>
    /\ AnsweredSet(exams[last.result[1].exam]) = {2}

\* C22: Question.fromJSON(q.toJSON()), for a constructed question q with or
\* without a recorded answer, returns a Question with q's id, text, options,
\* correctIndex, difficulty and recorded answer, so that isAnswered() and
\* isCorrect() say of it what they say of q.
C22_QuestionRoundTrip ==
    last.op = "Question.fromJSON(toJSON)" =>
        /\ last.err = ""
        /\ last.result # NoResult
        /\ LET q == exams[last.exam].questions[last.arg[1]]
               c == last.result[1].question
           IN /\ c.id = q.id
              /\ c.text = q.text
              /\ c.options = q.options
              /\ c.correctIndex = q.correctIndex
              /\ c.difficulty = q.difficulty
              /\ c.userAnswer = q.userAnswer
              /\ isAnswered(c) = isAnswered(q)
              /\ isCorrect(c) = isCorrect(q)

C22_Witness ==
    /\ last.op = "Question.fromJSON(toJSON)"
    /\ last.err = ""
    /\ last.result # NoResult
    /\ last.arg[1] = 2
    /\ exams[last.exam].questions[2].difficulty = <<"easy">>
    /\ exams[last.exam].questions[2].userAnswer = <<0>>
    /\ last.result[1].question.userAnswer = <<0>>
    /\ ~isCorrect(last.result[1].question)

\* C23: Question.fromJSON on a record whose stored answer is present and below
\* 0 or at or beyond the number of options throws the invalid-answer-index
\* error, the error setUserAnswer throws for that index on the question, and
\* returns no Question.
C23_InvalidStoredAnswerFails ==
    (last.op = "Question.fromJSON" /\ last.arg[2] # Undefined) =>
        LET q == exams[last.exam].questions[last.arg[1]]
            i == last.arg[2][1]
        IN (i < 0 \/ i >= Len(q.options)) =>
              /\ last.err = "Invalid answer index"
              /\ last.err = setUserAnswer(q, i).err
              /\ last.result = NoResult

C23_Witness ==
    /\ last.op = "Question.fromJSON"
    /\ last.arg[2] = <<Len(exams[last.exam].questions[last.arg[1]].options)>>
    /\ last.err = "Invalid answer index"
    /\ last.result = NoResult

\* C24: no call on an Exam, and no push, pop or reverse a caller does on an
\* array of its questions (one the questions getter handed out, or the one the
\* Exam was constructed from), changes the Exam's sequence of question
\* identifiers or its question count; apart from the recorded answers the
\* questions stay as they were constructed.
C24_QuestionSequenceFixed ==
    [][\A e \in 1..Len(exams) :
         (\/ last'.op = "Exam.questions" /\ MutateQuestionsArray(e, last'.arg[1])
          \/ last'.op = "new Exam(title, qs)" /\ MutateSuppliedArray(e, last'.arg[1])
          \/ last'.op = "Exam.answerQuestion"
               /\ ExamAnswerQuestion(e, last'.arg[1], last'.arg[2])
          \/ last'.op = "Exam.start" /\ ExamStart(e)
          \/ last'.op = "Exam.end" /\ ExamEnd(e)
          \/ last'.op = "Exam.getElapsedTime" /\ ExamGetElapsedTime(e)
          \/ last'.op = "Exam.fromJSON(toJSON)" /\ ExamRoundTrip(e)
          \/ last'.op = "Question.fromJSON(toJSON)" /\ QuestionRoundTrip(e, last'.arg[1])
          \/ last'.op = "Question.fromJSON"
               /\ QuestionFromStored(e, last'.arg[1], last'.arg[2]))
         => /\ last'.exam # Null
            /\ IdSeq(exams'[last'.exam]) = IdSeq(exams[e])
            /\ totalQuestions(exams'[last'.exam]) = totalQuestions(exams[e])
            /\ \A k \in 1..Len(exams[e].questions) :
                  [exams'[last'.exam].questions[k] EXCEPT !.userAnswer = Undefined]
                    = [exams[e].questions[k] EXCEPT !.userAnswer = Undefined]]_vars

\* C25: getElapsedTime() returns 0 on an Exam that was never started, and
\* otherwise the whole seconds from the start timestamp to the end timestamp,
\* or to the clock when the Exam is not ended; the completionTime of the
\* result completeExam() returns is the whole seconds from the exam's start
\* timestamp to its end timestamp and is not negative.
C25_ElapsedTime ==
    [][/\ (last'.op = "Exam.getElapsedTime" /\ now' = now) =>
            LET e == exams'[last'.exam]
                value == last'.result[1].value
                upTo == IF e.endTime # Undefined THEN e.endTime[1] ELSE now
            IN /\ e.startTime = Undefined => value = 0
               /\ e.startTime # Undefined =>
                    /\ 1000 * value <= upTo - e.startTime[1]
                    /\ upTo - e.startTime[1] < 1000 * (value + 1)
       /\ (last'.op = "completeExam" /\ last'.err = "" /\ CompleteExam) =>
            LET e == exams'[last'.result[1].exam]
                value == last'.result[1].completionTime
            IN /\ e.startTime # Undefined
               /\ e.endTime # Undefined
               /\ 1000 * value <= e.endTime[1] - e.startTime[1]
               /\ e.endTime[1] - e.startTime[1] < 1000 * (value + 1)
               /\ value >= 0]_vars

C25_Witness ==
    /\ last.op = "completeExam"
    /\ last.err = ""
    /\ last.result # NoResult
    /\ exams[last.result[1].exam].startTime = <<0>>
    /\ exams[last.result[1].exam].endTime = <<TickMs>>
    /\ last.result[1].completionTime = TickMs \div 1000
    /\ TickMs % 1000 # 0

\* The current exam is the same object before and after a step: with all its
\* fields as they were, or apart from the fields named.
SameCurrentExam ==
    \/ currentExam = Null /\ currentExam' = Null
    \/ /\ currentExam # Null
       /\ currentExam' # Null
       /\ exams'[currentExam'] = exams[currentExam]

KeptCurrentExam(fields) ==
    \/ currentExam = Null /\ currentExam' = Null
    \/ /\ currentExam # Null
       /\ currentExam' # Null
       /\ IdSeq(exams'[currentExam']) = IdSeq(exams[currentExam])
       /\ \A f \in DOMAIN exams[currentExam] \ fields :
             exams'[currentExam'][f] = exams[currentExam][f]

CreateCompletes ==
    /\ last'.op \in {"createExamFromFile", "createExamFromTopic"}
    /\ Len(pending') = Len(pending) - 1

\* C27: when resetExam() was called while a create call was in flight and that
\* call then completes, the current exam is still absent; and when the later
\* invoked of two overlapping create calls has installed its exam and the
\* earlier invoked one then completes, the current exam stays the one the
\* later call installed.
C27_ResetDuringCreate ==
    [][/\ (last.op = "resetExam" /\ pending # <<>> /\ CreateCompletes)
            => currentExam' = Null
       /\ (/\ last.op \in {"createExamFromFile", "createExamFromTopic"}
           /\ last.err = ""
           /\ last.arg[2] = 2
           /\ Len(pending) = 1
           /\ CreateCompletes)
            => SameCurrentExam]_vars

\* C28: the result r that completeExam() returned keeps correctCount equal to
\* the number of questions r.getCorrectQuestions() returns and incorrectCount
\* equal to the number r.getIncorrectQuestions() returns, when it is returned
\* and after a further submitAnswer call on the exam, which is still current.
C28_ResultCountsMatchExam ==
    [][/\ (last'.op = "completeExam" /\ last'.result # NoResult) =>
            LET r == last'.result[1]
            IN /\ r.correctCount = Len(getCorrectQuestions(exams'[r.exam]))
               /\ r.incorrectCount = Len(getIncorrectQuestions(exams'[r.exam]))
       /\ (/\ last.op = "completeExam"
           /\ last.result # NoResult
           /\ last.result[1].exam = currentExam
           /\ last'.op = "submitAnswer"
           /\ currentExam' # Null) =>
            LET r == last.result[1]
            IN /\ r.correctCount = Len(getCorrectQuestions(exams'[currentExam']))
               /\ r.incorrectCount = Len(getIncorrectQuestions(exams'[currentExam']))]_vars

\* C29: startExam, submitAnswer (accepted or rejected), completeExam and
\* Exam.end leave answered every question of the current exam that was
\* answered, so getAnsweredCount() does not decrease and canSubmit() stays true
\* once it is true; an accepted answer to a question already answered replaces
\* its answer and leaves getAnsweredCount() as it was, and a rejected one
\* changes no answer.
C29_AnsweringMonotone ==
    [][(/\ last'.op \in {"startExam", "submitAnswer", "completeExam", "Exam.end"}
        /\ currentExam # Null
        /\ currentExam' # Null)
       => LET before == exams[currentExam]
              after == exams'[currentExam']
              k == FirstWithId(before, last'.arg[1])
          IN /\ AnsweredSet(before) \subseteq AnsweredSet(after)
             /\ getAnsweredCount(after) >= getAnsweredCount(before)
             /\ canSubmit(before) => canSubmit(after)
             /\ (last'.op # "submitAnswer" \/ last'.err # "") =>
                   \A j \in 1..Len(before.questions) :
                      after.questions[j].userAnswer = before.questions[j].userAnswer
             /\ (/\ last'.op = "submitAnswer"
                 /\ last'.err = ""
                 /\ k \in AnsweredSet(before)) =>
                   /\ after.questions[k].userAnswer = <<last'.arg[2]>>
                   /\ getAnsweredCount(after) = getAnsweredCount(before)]_vars

C29_Witness ==
    /\ last.op = "submitAnswer"
    /\ last.err = "Invalid answer index"
    /\ currentExam # Null
    /\ Len(exams[currentExam].questions) = 2
    /\ canSubmit(exams[currentExam])
    /\ exams[currentExam].endTime # Undefined

\* C30: whenever App is in its exam or results view it holds an exam with at
\* least one question, so the ExamResult the Results view builds is never over
\* an exam without questions; and once a restart has run, neither App nor the
\* ExamService holds an exam.
C30_AppWorkflow ==
    /\ app.view \in {"exam", "results"} =>
         app.exam # Null /\ totalQuestions(exams[app.exam]) >= 1
    /\ (last.op = "new ExamResult" /\ Rendered(app) = "Results") =>
         /\ last.exam = app.exam
         /\ last.result[1].correctCount + last.result[1].incorrectCount >= 1
         /\ last.result[1].percentage.den >= 1
    /\ last.op = "App.handleRestart" =>
         app.view = "upload" /\ app.exam = Null /\ currentExam = Null

\* The Results view has built its ExamResult over a partly answered exam that
\* was submitted after the clock moved.
C30_Witness ==
    /\ app.view = "results"
    /\ last.op = "new ExamResult"
    /\ totalQuestions(exams[app.exam]) = 2
    /\ last.result[1].correctCount = 1
    /\ last.result[1].completionTime > 0

\* A restart has run after an exam was taken: both exams are gone.
C30_WitnessRestart ==
    /\ last.op = "App.handleRestart"
    /\ app = InitialApp
    /\ currentExam = Null
    /\ now > 0
====
